---- MODULE Spec2Model ----
(***************************************************************************)
(* Do Up job-board backend (Express controllers over Mongoose models).     *)
(* Every handler is modelled with one step per await that touches the      *)
(* store whenever another request can observe the intermediate state;      *)
(* handlers that issue a single store operation are one atomic action.     *)
(* Each subsystem has its own specification over its own variables; the    *)
(* variables of the other subsystems stay at their idle values.            *)
(***************************************************************************)
EXTENDS Integers, Sequences, FiniteSets, TLC

VARIABLES
    linksGenerated,  \* User.statistics.linksGenerated, per user
    userJobs,        \* UserJob collection: per (userId, jobId) the rows, in insertion order
    transactions,    \* Transaction collection, _id = position
    jreq,            \* in-flight /api/jobs requests, one record per slot
    plast,           \* the last answer of the payment routes
    chats,           \* Chat collection, _id = position
    creq,            \* in-flight POST /api/chat/message requests, one record per slot
    users,           \* User collection, _id = position
    nonceStore,      \* the controller's nonce Map: nonce -> issuance time
    timers,          \* pending setTimeout callbacks of getNonce
    now,             \* Date.now(), in clock ticks
    areq,            \* in-flight /api/auth requests, one record per slot
    mreq,            \* the request passing through the token middleware
    jobs,            \* Job collection, in insertion order
    jlast,           \* the last GET /api/jobs request and its answer
    seedRuns,        \* insertMany batches the Job collection has received
    slast,           \* the last seedJobs call: the records read, the bulk insert's error
    prlast           \* the request of the profile routes being answered

vars ==
    <<transactions, linksGenerated, userJobs, jreq, plast, chats, creq, users, nonceStore,
      timers, now, areq, mreq, jobs, jlast, seedRuns, slast, prlast>>

\* what the handlers of one group of routes leave alone
exceptLink ==
    <<plast, chats, creq, users, nonceStore, timers, now, areq, mreq, jobs, jlast, seedRuns,
      slast, prlast>>
exceptPay ==
    <<linksGenerated, userJobs, jreq, chats, creq, users, nonceStore, timers, now, areq, mreq,
      jobs, jlast, seedRuns, slast, prlast>>
exceptChat ==
    <<linksGenerated, userJobs, jreq, users, nonceStore, timers, now, areq, mreq, jobs, jlast,
      seedRuns, slast, prlast>>
exceptAuth ==
    <<transactions, linksGenerated, userJobs, jreq, plast, chats, creq, mreq, jobs, jlast,
      seedRuns, slast, prlast>>
exceptMw ==
    <<transactions, linksGenerated, userJobs, jreq, plast, chats, creq, users, nonceStore,
      timers, now, areq, jobs, jlast, seedRuns, slast, prlast>>
exceptJobs ==
    <<transactions, linksGenerated, userJobs, jreq, plast, chats, creq, users, nonceStore,
      timers, now, areq, mreq, prlast>>
exceptProfile ==
    <<transactions, linksGenerated, userJobs, jreq, plast, chats, creq, nonceStore, timers,
      now, areq, mreq, jobs, jlast, seedRuns, slast>>

(***************************************************************************)
(* Identities and bounds                                                   *)
(***************************************************************************)
UserIds == {"u1", "u2"}
JobIds == {"j1", "j2"}
\* a well-formed ObjectId that no Job document has
NoJob == "j0"
\* a body field that was not sent (undefined, falsy)
Missing == ""
\* request slots of the job routes (requests being handled concurrently)
JobReqIds == {"a", "b"}
\* Transaction documents the model lets the store hold
MaxTx == 2
\* the value the model lets statistics.linksGenerated reach
MaxLinksGenerated == 3

\* transactionId values: NoTx = the field is unset, DanglingTx = a well-formed
\* ObjectId that no Transaction has, n >= 1 = the _id of transactions[n]
NoTx == -1
DanglingTx == 0

NoLink == <<>>

Pairs == UserIds \X JobIds

(***************************************************************************)
(* Transaction model and PaymentService.recordTransaction                  *)
(***************************************************************************)
\* status is one of PENDING, COMPLETED, FAILED
TxTypes == {"CHAT", "JOB_LINK", "DEPOSIT"}

\* the document recordTransaction saves; reference is a fresh UUID, modelled
\* by the position the document gets
NewTransaction(userId, type, amount, jobId, n) ==
    [userId |-> userId, type |-> type, amount |-> amount, status |-> "PENDING",
     reference |-> n, worldIdTransactionId |-> "", jobId |-> jobId]

recordTransaction(txs, userId, type, amount, jobId) ==
    Append(txs, NewTransaction(userId, type, amount, jobId, Len(txs) + 1))

(***************************************************************************)
(* UserJob model, JobService.updateJobStatus / generateJobLink /           *)
(* updateUserStatistics, JobController                                     *)
(***************************************************************************)
\* status is one of INTERESTED, DISCARDED, APPLIED

NewUserJob(status) ==
    [status |-> status, generatedLink |-> NoLink, transactionId |-> NoTx]

\* placeholder for "no document loaded"
NoDoc == [status |-> "none", generatedLink |-> NoLink, transactionId |-> NoTx]

\* UserJobSchema.index({userId, jobId}, {unique: true}): an insert is accepted
\* only when the pair has no row yet
NoUniqueIndex(rows) == TRUE

UniqueIndexAllows(rows) == Len(rows) = 0

\* Document.save() of a loaded document sends $set for the paths whose value
\* was changed on the local copy only
SetIfModified(stored, loaded, new) == IF new # loaded THEN new ELSE stored

\* updateJobStatus, save of a loaded row: status (and updatedAt) are assigned
StatusSaveInserting(rows, found, doc, status) == Append(rows, NewUserJob(status))

StatusSave(rows, found, doc, status) ==
    [rows EXCEPT ![found].status = SetIfModified(@, doc.status, status)]

\* generateJobLink, the row written by save: of a new document every field,
\* of a loaded one the modified paths
LinkSave(rows, found, doc, link, txId) ==
    IF found = 0
    THEN Append(rows, [status |-> "APPLIED", generatedLink |-> link, transactionId |-> txId])
    ELSE [rows EXCEPT ![found].status = SetIfModified(@, doc.status, "APPLIED"),
                      ![found].generatedLink = SetIfModified(@, doc.generatedLink, link),
                      ![found].transactionId = SetIfModified(@, doc.transactionId, txId)]

\* `${API_BASE_URL}/apply/${jobId}/${uniqueId}` as its parts
GeneratedLink(jobId, uniqueId) == <<"/apply/", jobId, "/", uniqueId>>

\* UserJobModel.countDocuments({userId, generatedLink: {$exists: true, $ne: null}})
RECURSIVE CountWithLink(_, _)
CountWithLink(rows, i) ==
    IF i = 0 THEN 0
    ELSE (IF rows[i].generatedLink # NoLink THEN 1 ELSE 0) + CountWithLink(rows, i - 1)

RECURSIVE SumOver(_, _, _)
SumOver(uj, userId, ids) ==
    IF ids = {} THEN 0
    ELSE LET j == CHOOSE x \in ids : TRUE
         IN CountWithLink(uj[<<userId, j>>], Len(uj[<<userId, j>>]))
            + SumOver(uj, userId, ids \ {j})

LinksCount(uj, userId) == SumOver(uj, userId, JobIds)

\* the request is answered: of its local variables only the status of the row
\* it had loaded is kept, for the record
Answered(q, code) ==
    [q EXCEPT !.pc = "done", !.resp = code, !.found = 0, !.count = 0, !.link = NoLink,
              !.doc = [NoDoc EXCEPT !.status = q.doc.status]]

IdleReq ==
    [op |-> "idle", pc |-> "idle", userId |-> "u1", jobId |-> NoJob, status |-> "",
     txId |-> NoTx, found |-> 0, doc |-> NoDoc, count |-> 0, before |-> 0,
     dup |-> FALSE, failed |-> "none", resp |-> 0, link |-> NoLink]

InitLink ==
    /\ linksGenerated = [u \in UserIds |-> 0]
    /\ userJobs = [p \in Pairs |-> <<>>]
    /\ jreq = [r \in JobReqIds |-> IdleReq]

\* POST /api/jobs/:id/link -> JobController.generateJobLink: records the
\* PENDING JOB_LINK transaction; the job id is not looked up
CreateJobLink(r, u, j) ==
    /\ jreq[r].op = "idle"
    /\ Len(transactions) < MaxTx
    /\ transactions' = recordTransaction(transactions, u, "JOB_LINK", 1, j)
    /\ jreq' = [jreq EXCEPT ![r] = [IdleReq EXCEPT !.op = "link", !.pc = "done",
                   !.userId = u, !.jobId = j, !.txId = Len(transactions) + 1,
                   !.resp = 200]]
    /\ UNCHANGED <<linksGenerated, userJobs, exceptLink>>

\* a complete-link entry that looks the Transaction up and goes on only when
\* it is the caller's and COMPLETED
BeginCompleteCheckingTx(r, u, j, t) ==
    /\ jreq[r].op = "idle"
    /\ jreq' = [jreq EXCEPT ![r] =
          IF \/ j \notin JobIds
             \/ t \notin 1..Len(transactions)
             \/ transactions[t].userId # u
             \/ transactions[t].status # "COMPLETED"
          THEN [IdleReq EXCEPT !.op = "complete", !.pc = "done", !.userId = u,
                               !.jobId = j, !.txId = t, !.resp = 400]
          ELSE [IdleReq EXCEPT !.op = "complete", !.pc = "findUserJob", !.userId = u,
                               !.jobId = j, !.txId = t,
                               !.before = linksGenerated[u]]]
    /\ UNCHANGED <<linksGenerated, userJobs, transactions, exceptLink>>

\* POST /api/jobs/complete-link -> completeJobLink -> generateJobLink up to
\* JobModel.findById: a missing job throws and is answered 400.  The Job
\* collection does not change while requests are served, so the lookup is
\* taken with the entry of the request.
BeginComplete(r, u, j, t) ==
    /\ jreq[r].op = "idle"
    /\ jreq' = [jreq EXCEPT ![r] =
          IF j \notin JobIds
          THEN [IdleReq EXCEPT !.op = "complete", !.pc = "done", !.userId = u,
                               !.jobId = j, !.txId = t, !.resp = 400]
          ELSE [IdleReq EXCEPT !.op = "complete", !.pc = "findUserJob", !.userId = u,
                               !.jobId = j, !.txId = t,
                               !.before = linksGenerated[u]]]
    /\ UNCHANGED <<linksGenerated, userJobs, transactions, exceptLink>>

\* an entry of updateJobStatus that takes any status
BeginStatusUnvalidated(r, u, j, s) ==
    /\ jreq[r].op = "idle"
    /\ jreq' = [jreq EXCEPT ![r] =
          IF j \notin JobIds
          THEN [IdleReq EXCEPT !.op = "status", !.pc = "done", !.userId = u,
                               !.jobId = j, !.status = s, !.resp = 400]
          ELSE [IdleReq EXCEPT !.op = "status", !.pc = "findUserJob", !.userId = u,
                               !.jobId = j, !.status = s]]
    /\ UNCHANGED <<linksGenerated, userJobs, transactions, exceptLink>>

\* POST /api/jobs/:id/status -> updateJobStatus up to JobModel.findById: an
\* invalid status or a missing job throws and is answered 400
BeginStatus(r, u, j, s) ==
    /\ jreq[r].op = "idle"
    /\ jreq' = [jreq EXCEPT ![r] =
          IF s \notin {"INTERESTED", "DISCARDED"} \/ j \notin JobIds
          THEN [IdleReq EXCEPT !.op = "status", !.pc = "done", !.userId = u,
                               !.jobId = j, !.status = s, !.resp = 400]
          ELSE [IdleReq EXCEPT !.op = "status", !.pc = "findUserJob", !.userId = u,
                               !.jobId = j, !.status = s]]
    /\ UNCHANGED <<linksGenerated, userJobs, transactions, exceptLink>>

\* UserJobModel.findOne({ userId, jobId })
FindUserJob(r) ==
    /\ jreq[r].pc = "findUserJob"
    /\ LET rows == userJobs[<<jreq[r].userId, jreq[r].jobId>>]
           f == IF Len(rows) > 0 THEN 1 ELSE 0
       IN jreq' = [jreq EXCEPT ![r].pc = "save", ![r].found = f,
                                ![r].doc = IF f = 0 THEN NoDoc ELSE rows[f]]
    /\ UNCHANGED <<linksGenerated, userJobs, transactions, exceptLink>>

\* updateJobStatus: userJob.save(); a duplicate-key error is rethrown and
\* answered 400
SaveStatus(r) ==
    /\ jreq[r].pc = "save"
    /\ jreq[r].op = "status"
    /\ LET p == <<jreq[r].userId, jreq[r].jobId>>
           rows == userJobs[p]
       IN IF jreq[r].found = 0
          THEN IF UniqueIndexAllows(rows)
               THEN /\ userJobs' = [userJobs EXCEPT ![p] = Append(rows, NewUserJob(jreq[r].status))]
                    /\ jreq' = [jreq EXCEPT ![r] = Answered(@, 200)]
               ELSE /\ userJobs' = userJobs
                    /\ jreq' = [jreq EXCEPT ![r] = Answered([@ EXCEPT !.dup = TRUE], 400)]
          ELSE /\ userJobs' = [userJobs EXCEPT ![p] =
                                  StatusSave(rows, jreq[r].found, jreq[r].doc, jreq[r].status)]
               /\ jreq' = [jreq EXCEPT ![r] = Answered(@, 200)]
    /\ UNCHANGED <<linksGenerated, transactions, exceptLink>>

\* generateJobLink: link generation and userJob.save()
SaveLink(r, uid) ==
    /\ jreq[r].pc = "save"
    /\ jreq[r].op = "complete"
    /\ LET p == <<jreq[r].userId, jreq[r].jobId>>
           rows == userJobs[p]
           link == GeneratedLink(jreq[r].jobId, uid)
       IN IF jreq[r].found = 0 /\ ~UniqueIndexAllows(rows)
          THEN /\ userJobs' = userJobs
               /\ jreq' = [jreq EXCEPT ![r] = Answered([@ EXCEPT !.dup = TRUE], 400)]
          ELSE /\ userJobs' = [userJobs EXCEPT ![p] =
                                  LinkSave(rows, jreq[r].found, jreq[r].doc, link, jreq[r].txId)]
               /\ jreq' = [jreq EXCEPT ![r].pc = "count", ![r].link = link,
                                        ![r].found = 0, ![r].doc = NoDoc]
    /\ UNCHANGED <<linksGenerated, transactions, exceptLink>>

\* updateUserStatistics: countDocuments; when the store operation fails
\* (ok = FALSE) the catch of updateUserStatistics logs and returns
CountLinks(r, ok) ==
    /\ jreq[r].pc = "count"
    /\ jreq' = IF ok
               THEN [jreq EXCEPT ![r].pc = "setStats",
                                 ![r].count = LinksCount(userJobs, jreq[r].userId)]
               ELSE [jreq EXCEPT ![r].pc = "inc", ![r].failed = "statistics"]
    /\ UNCHANGED <<linksGenerated, userJobs, transactions, exceptLink>>

\* updateUserStatistics: User.findByIdAndUpdate(userId, {'statistics.linksGenerated': linksCount})
SetStats(r, ok) ==
    /\ jreq[r].pc = "setStats"
    /\ linksGenerated' = IF ok THEN [linksGenerated EXCEPT ![jreq[r].userId] = jreq[r].count]
                         ELSE linksGenerated
    /\ jreq' = [jreq EXCEPT ![r].pc = "inc", ![r].count = 0,
                             ![r].failed = IF ok THEN @ ELSE "statistics"]
    /\ UNCHANGED <<userJobs, transactions, exceptLink>>

\* completeJobLink: UserModel.findByIdAndUpdate(userId, {$inc: {'statistics.linksGenerated': 1}})
\* a rejected promise lands in the catch of completeJobLink: 400
IncStats(r, ok) ==
    /\ jreq[r].pc = "inc"
    /\ ok => linksGenerated[jreq[r].userId] < MaxLinksGenerated
    /\ linksGenerated' = IF ok THEN [linksGenerated EXCEPT ![jreq[r].userId] = @ + 1]
                         ELSE linksGenerated
    /\ jreq' = [jreq EXCEPT ![r] =
                   IF ok THEN Answered(@, 200) ELSE Answered([@ EXCEPT !.failed = "inc"], 400)]
    /\ UNCHANGED <<userJobs, transactions, exceptLink>>

\* the response was sent; the slot serves the next request
Respond(r) ==
    /\ jreq[r].pc = "done"
    /\ jreq' = [jreq EXCEPT ![r] = IdleReq]
    /\ UNCHANGED <<linksGenerated, userJobs, transactions, exceptLink>>

TxArgs == {DanglingTx} \cup (1..Len(transactions))

\* the job routes served for the request slots R, callers U and job ids J,
\* the store operations of the statistics succeeding as OK says
LinkNext(R, U, J, OK) ==
    \/ \E r \in R, u \in U, j \in J : CreateJobLink(r, u, j)
    \/ \E r \in R, u \in U, j \in J \cup {NoJob}, t \in TxArgs :
          BeginComplete(r, u, j, t)
    \/ \E r \in R, u \in U, j \in J \cup {NoJob},
          s \in {"INTERESTED", "DISCARDED", "APPLIED", Missing} : BeginStatus(r, u, j, s)
    \/ \E r \in R : FindUserJob(r)
    \/ \E r \in R : SaveStatus(r)
    \/ \E r \in R, uid \in {"", "k7q"} : SaveLink(r, uid)
    \/ \E r \in R, ok \in OK : CountLinks(r, ok)
    \/ \E r \in R, ok \in OK : SetStats(r, ok)
    \/ \E r \in R, ok \in OK : IncStats(r, ok)
    \/ \E r \in R : Respond(r)

\* two requests in flight at once, about one user and one job
NextLink == LinkNext(JobReqIds, {"u1"}, {"j1"}, {TRUE})

\* one request at a time, with store operations of the statistics that can
\* fail
NextLinkFailing == LinkNext({"a"}, {"u1"}, JobIds, BOOLEAN)

(***************************************************************************)
(* PaymentController / PaymentService: /api/payments                       *)
(***************************************************************************)
\* ids the payment provider gives to payments
WorldTxIds == {"w1", "w2"}
\* reference values of a request: NoRef = not sent, UnknownRef = a reference
\* no Transaction has, n >= 1 = the reference of transactions[n]
NoRef == -1
UnknownRef == 0
\* amount not sent
NoAmount == -1

\* TransactionSchema validation on save: userId, type, amount required, type
\* within the enum
ValidTransaction(userId, type, amount) ==
    userId \in UserIds /\ type \in TxTypes /\ amount # NoAmount

\* TransactionModel.findOneAndUpdate({ reference }, ...): the positions the
\* filter can select, 0 for no document.  A filter whose reference is
\* undefined selects nothing or, where the driver drops undefined keys, an
\* arbitrary document.
RECURSIVE FirstWithReference(_, _, _)
FirstWithReference(txs, ref, i) ==
    IF i > Len(txs) THEN 0
    ELSE IF txs[i].reference = ref THEN i
    ELSE FirstWithReference(txs, ref, i + 1)

\* a lookup that takes the first Transaction whatever the reference
FindOneIgnoringReference(txs, ref) ==
    IF Len(txs) > 0 THEN {1} ELSE {0}

FindOneByReference(txs, ref) ==
    IF ref = NoRef THEN 0..Len(txs) ELSE {FirstWithReference(txs, ref, 1)}

\* an update document without worldIdTransactionId
updateStatusOnly(txs, i, status, worldIdTransactionId) ==
    [txs EXCEPT ![i].status = status]

\* the update document of updateTransactionStatus applied to transactions[i]
updateTransactionStatus(txs, i, status, worldIdTransactionId) ==
    [txs EXCEPT ![i].status = status, ![i].worldIdTransactionId = worldIdTransactionId]

\* an answer of the payment routes, with the request body it answers
NoAnswer ==
    [op |-> "none", code |-> 0, caller |-> Missing, tx |-> 0,
     transaction_id |-> Missing, reference |-> NoRef, status |-> Missing]

InitPay == plast = NoAnswer

\* POST /api/payments/create (behind verifyToken): the owner is read from the
\* body; a validation error is answered 500
CreatePayment(caller, userId, type, amount) ==
    /\ Len(transactions) < MaxTx
    /\ IF ValidTransaction(userId, type, amount)
       THEN /\ transactions' = recordTransaction(transactions, userId, type, amount, NoJob)
            /\ plast' = [NoAnswer EXCEPT !.op = "create", !.code = 201,
                                           !.caller = caller,
                                           !.tx = Len(transactions) + 1]
       ELSE /\ transactions' = transactions
            /\ plast' = [NoAnswer EXCEPT !.op = "create", !.code = 500,
                                           !.caller = caller]
    /\ UNCHANGED exceptPay

\* POST /api/payments/verify; outcome is what the provider answers:
\* "success", another status, or "throw" when the call fails
VerifyPayment(transaction_id, reference, outcome) ==
    LET q == [NoAnswer EXCEPT !.op = "verify", !.transaction_id = transaction_id,
                     !.reference = reference, !.status = outcome]
    IN
    /\ IF transaction_id = Missing
       THEN /\ plast' = [q EXCEPT !.code = 400]
            /\ transactions' = transactions
       ELSE IF outcome = "throw"
       THEN /\ plast' = [q EXCEPT !.code = 500]
            /\ transactions' = transactions
       ELSE IF outcome # "success"
       THEN /\ plast' = [q EXCEPT !.code = 400]
            /\ transactions' = transactions
       ELSE \E i \in FindOneByReference(transactions, reference) :
               IF i = 0
               THEN /\ plast' = [q EXCEPT !.code = 500]
                    /\ transactions' = transactions
               ELSE /\ plast' = [q EXCEPT !.code = 200, !.tx = i]
                    /\ transactions' =
                          updateTransactionStatus(transactions, i, "COMPLETED", transaction_id)
    /\ UNCHANGED exceptPay

\* POST /api/payments/callback
PaymentCallback(transaction_id, reference, status) ==
    LET q == [NoAnswer EXCEPT !.op = "callback", !.transaction_id = transaction_id,
                     !.reference = reference, !.status = status]
    IN
    /\ IF transaction_id = Missing \/ reference = NoRef
       THEN /\ plast' = [q EXCEPT !.code = 400]
            /\ transactions' = transactions
       ELSE \E i \in FindOneByReference(transactions, reference) :
               IF i = 0
               THEN /\ plast' = [q EXCEPT !.code = 500]
                    /\ transactions' = transactions
               ELSE /\ plast' = [q EXCEPT !.code = 200, !.tx = i]
                    /\ transactions' =
                          updateTransactionStatus(transactions, i,
                              IF status = "success" THEN "COMPLETED" ELSE "FAILED",
                              transaction_id)
    /\ UNCHANGED exceptPay

RefArgs == {NoRef, UnknownRef} \cup (1..Len(transactions))

\* the response is sent
PayRespond ==
    /\ plast # NoAnswer
    /\ plast' = NoAnswer
    /\ UNCHANGED <<transactions, exceptPay>>

\* the payment routes, one request answered at a time
NextPay ==
    \/ /\ plast = NoAnswer
       /\ \E c \in UserIds, u \in UserIds \cup {Missing}, ty \in TxTypes \cup {Missing},
             am \in {1, NoAmount} : CreatePayment(c, u, ty, am)
    \/ /\ plast = NoAnswer
       /\ \E w \in WorldTxIds \cup {Missing}, ref \in RefArgs,
             o \in {"success", "pending", "throw"} : VerifyPayment(w, ref, o)
    \/ /\ plast = NoAnswer
       /\ \E w \in WorldTxIds \cup {Missing}, ref \in RefArgs,
             st \in {"success", "failed", Missing} : PaymentCallback(w, ref, st)
    \/ PayRespond

\* one request of u1 at a time, next to payments of any user and payment
\* callbacks that settle them either way
NextLinkPay ==
    \/ LinkNext({"a"}, {"u1"}, {"j1"}, {TRUE})
    \/ \E u \in UserIds : CreatePayment(u, u, "JOB_LINK", 1)
    \/ \E ref \in 1..Len(transactions), st \in {"success", "failed"} :
          PaymentCallback("w1", ref, st)

(***************************************************************************)
(* ChatController / ChatService: /api/chat                                 *)
(***************************************************************************)
\* request slots of POST /api/chat/message
ChatReqIds == {"m", "n"}
\* Chat documents the model lets the store hold
MaxChats == 1
\* messages the model lets one chat hold
MaxMsgs == 5

Apology ==
    "I'm sorry, I'm having trouble generating a response right now. Please try again later."

Message(role, content) == [role |-> role, content |-> content]

\* ChatMessageSchema validation: role within the enum, content required (a
\* missing or empty string fails)
ValidMessage(m) == m.role \in {"USER", "AI"} /\ m.content # Missing

\* ChatService.createChat: the document saved by completeChat
NewChat(userId, transactionId, jobId) ==
    [userId |-> userId, jobId |-> jobId, transactionId |-> transactionId,
     messages |-> << Message("AI", IF jobId # Missing THEN "Hello! job" ELSE "Hello!") >>]

\* ChatService.getAIResponse: the provider's text, or the fixed apology when
\* the call (or reading the completion out of its answer) throws
getAIResponseRethrowing(outcome) ==
    IF outcome = "fail" THEN Missing ELSE outcome

getAIResponse(outcome) ==
    IF outcome = "fail" THEN Apology ELSE outcome

IdleChatReq ==
    [pc |-> "idle", caller |-> Missing, chatId |-> 0, message |-> Missing,
     doc |-> <<>>, ai |-> "none", threw |-> FALSE, resp |-> 0]

InitChat ==
    /\ chats = <<>>
    /\ creq = [r \in ChatReqIds |-> IdleChatReq]

\* POST /api/chat/create -> ChatController.createChat: records the PENDING
\* CHAT transaction
CreateChat(u, j) ==
    /\ Len(transactions) < MaxTx
    /\ transactions' = recordTransaction(transactions, u, "CHAT", 1, j)
    /\ UNCHANGED <<chats, creq, plast, exceptChat>>

\* POST /api/chat/complete -> ChatController.completeChat -> ChatService.createChat:
\* the Transaction is not read; a missing transactionId fails the schema's
\* validation and is answered 500
CompleteChat(u, t, j) ==
    /\ Len(chats) < MaxChats
    /\ IF t # NoTx
       THEN /\ chats' = Append(chats, NewChat(u, t, j))
            /\ plast' = [NoAnswer EXCEPT !.op = "completeChat", !.code = 200,
                                           !.caller = u, !.tx = t]
       ELSE /\ chats' = chats
            /\ plast' = [NoAnswer EXCEPT !.op = "completeChat", !.code = 500,
                                           !.caller = u]
    /\ UNCHANGED <<transactions, creq, exceptChat>>

\* messages the requests in flight may still add to chat c
Pending(c) ==
    Cardinality({r \in ChatReqIds : creq[r].chatId = c /\ creq[r].pc \in {"saveUser", "ai", "saveAI"}})

\* sendMessage: ChatModel.findById; a missing chat throws (answered 500)
SendBegin(r, caller, c, msg) ==
    /\ creq[r].pc = "idle"
    /\ IF c \in 1..Len(chats)
       THEN /\ Len(chats[c].messages) + 2 * Pending(c) + 2 <= MaxMsgs
            /\ creq' = [creq EXCEPT ![r] = [IdleChatReq EXCEPT !.pc = "saveUser",
                           !.caller = caller, !.chatId = c, !.message = msg,
                           !.doc = chats[c].messages]]
       ELSE creq' = [creq EXCEPT ![r] = [IdleChatReq EXCEPT !.pc = "done",
                        !.caller = caller, !.chatId = c, !.message = msg,
                        !.threw = TRUE, !.resp = 500]]
    /\ UNCHANGED <<transactions, chats, plast, exceptChat>>

\* sendMessage: chat.messages.push(USER message); chat.save() sends $push of
\* the new element; a validation error throws before anything is written
SaveUser(r) ==
    /\ creq[r].pc = "saveUser"
    /\ LET m == Message("USER", creq[r].message)
       IN IF ValidMessage(m)
          THEN /\ chats' = [chats EXCEPT ![creq[r].chatId].messages = Append(@, m)]
               /\ creq' = [creq EXCEPT ![r].pc = "ai", ![r].doc = Append(@, m)]
          ELSE /\ chats' = chats
               /\ creq' = [creq EXCEPT ![r].pc = "done", ![r].threw = TRUE,
                                        ![r].resp = 500]
    /\ UNCHANGED <<transactions, plast, exceptChat>>

\* sendMessage: job context is read, then getAIResponse is awaited
AICall(r, outcome) ==
    /\ creq[r].pc = "ai"
    /\ creq' = [creq EXCEPT ![r].pc = "saveAI", ![r].ai = outcome]
    /\ UNCHANGED <<transactions, chats, plast, exceptChat>>

\* sendMessage: chat.messages.push(AI message); chat.save(); then the
\* controller compares the chat's owner with the caller (403) or answers 200
SaveAI(r) ==
    /\ creq[r].pc = "saveAI"
    /\ LET m == Message("AI", getAIResponse(creq[r].ai))
           c == creq[r].chatId
       IN IF ValidMessage(m)
          THEN /\ chats' = [chats EXCEPT ![c].messages = Append(@, m)]
               /\ creq' = [creq EXCEPT ![r].pc = "done", ![r].doc = Append(@, m),
                              ![r].resp = IF chats[c].userId # creq[r].caller
                                          THEN 403 ELSE 200]
          ELSE /\ chats' = chats
               /\ creq' = [creq EXCEPT ![r].pc = "done", ![r].threw = TRUE,
                                        ![r].resp = 500]
    /\ UNCHANGED <<transactions, plast, exceptChat>>

ChatRespond(r) ==
    /\ creq[r].pc = "done"
    /\ creq' = [creq EXCEPT ![r] = IdleChatReq]
    /\ UNCHANGED <<transactions, chats, plast, exceptChat>>

\* chat creation with its payment: create, the provider's callback, complete
NextChatPay ==
    \/ \E u \in UserIds, j \in {"j1", Missing} : CreateChat(u, j)
    \/ \E ref \in 1..Len(transactions), st \in {"success", "failed"} :
          PaymentCallback("w1", ref, st)
    \/ \E u \in UserIds, j \in {"j1", Missing}, t \in TxArgs \cup {NoTx} :
          CompleteChat(u, t, j)

\* messaging on the chats of user u1
NextChat ==
    \/ \E j \in {"j1", Missing} : CompleteChat("u1", DanglingTx, j)
    \/ \E r \in ChatReqIds, u \in UserIds, c \in 0..MaxChats, msg \in {"hi", "ok?", Missing} :
          SendBegin(r, u, c, msg)
    \/ \E r \in ChatReqIds : SaveUser(r)
    \/ \E r \in ChatReqIds, o \in {"Sure.", Missing, "fail"} : AICall(r, o)
    \/ \E r \in ChatReqIds : SaveAI(r)
    \/ \E r \in ChatReqIds : ChatRespond(r)

(***************************************************************************)
(* AuthController: /api/auth                                               *)
(***************************************************************************)
\* request slots of the auth routes (requests being handled concurrently)
AuthReqIds == {"p", "q"}
Nullifiers == {"0xaa"}
Wallets == {"0xw1"}
Nonces == {"nA"}
\* User documents the model lets the store hold
MaxUsers == 2
\* clock ticks the model lets pass
MaxTime == 3
\* 5 * 60 * 1000 ms, in clock ticks
NonceTTL == 2
\* nonceStore.has(nonce) is false
NoStamp == -1

\* the nickname default of the schema and of walletAuth:
\* `user_${Math.random().toString(36).substring(2, 10)}`
RandomNickname == "user_r"

\* the document a save of new UserModel({...}) stores: the fields given and
\* the defaults of the schema for the others
NewUser(worldIdNullifierHash, nickname, walletAddress) ==
    [worldIdNullifierHash |-> worldIdNullifierHash,
     nickname |-> nickname,
     walletAddress |-> walletAddress,
     profilePicture |-> Missing,
     contactInfo |-> "default",
     professionalInfo |-> "default",
     preferences |-> "default",
     statistics |-> "default",
     updatedAt |-> "created"]

RECURSIVE FirstUserWith(_, _, _, _)
FirstUserWith(rows, field, value, i) ==
    IF i > Len(rows) THEN 0
    ELSE IF rows[i][field] = value THEN i
    ELSE FirstUserWith(rows, field, value, i + 1)

\* UserModel.findOne({ [field]: value }): the _id of the document, 0 for null
FindOneUser(rows, field, value) == FirstUserWith(rows, field, value, 1)

\* the rows holding a value in a field (the schema declares the indexes on
\* worldIdNullifierHash and walletAddress sparse, not unique)
UsersWith(rows, field, value) == {i \in 1..Len(rows) : rows[i][field] = value}

IdleAuthReq ==
    [pc |-> "idle", op |-> "none", nullifier |-> Missing, wallet |-> Missing,
     nickname |-> Missing, nonce |-> Missing, fresh |-> FALSE, found |-> 0,
     merkle_root |-> Missing, proof |-> Missing, provider |-> "none",
     code |-> 0, userId |-> 0]

InitAuth ==
    /\ users = <<>>
    /\ nonceStore = [n \in Nonces |-> NoStamp]
    /\ timers = {}
    /\ now = 0
    /\ areq = [r \in AuthReqIds |-> IdleAuthReq]

\* res.status(code).json(...) of an auth handler; userId is the id in the
\* token and in the body, 0 when no token is issued
AuthAnswered(q, code, userId) ==
    [q EXCEPT !.pc = "done", !.code = code, !.userId = userId,
              !.nickname = Missing, !.found = 0]

\* GET /api/auth/nonce
GetNonce(n) ==
    /\ \A t \in timers : t.nonce # n
    /\ nonceStore' = [nonceStore EXCEPT ![n] = now]
    /\ timers' = timers \cup {[nonce |-> n, due |-> now + NonceTTL]}
    /\ UNCHANGED <<users, now, areq, exceptAuth>>

\* the setTimeout callback of getNonce
ExpiryTimer(t) ==
    /\ t \in timers
    /\ t.due <= now
    /\ nonceStore' = [nonceStore EXCEPT ![t.nonce] = NoStamp]
    /\ timers' = timers \ {t}
    /\ UNCHANGED <<users, now, areq, exceptAuth>>

\* time passes; a due timer runs before the next tick
Tick ==
    /\ now < MaxTime
    /\ \A t \in timers : t.due > now
    /\ now' = now + 1
    /\ UNCHANGED <<users, nonceStore, timers, areq, exceptAuth>>

\* POST /api/auth/verify, up to the call of the provider
VerifyBegin(r, merkle_root, nullifier_hash, proof) ==
    /\ areq[r].pc = "idle"
    /\ LET q == [IdleAuthReq EXCEPT !.op = "verify", !.nullifier = nullifier_hash,
                                  !.merkle_root = merkle_root, !.proof = proof]
       IN areq' = [areq EXCEPT ![r] =
              IF merkle_root = Missing \/ nullifier_hash = Missing \/ proof = Missing
              THEN AuthAnswered(q, 400, 0)
              ELSE [q EXCEPT !.pc = "verifyProof"]]
    /\ UNCHANGED <<users, nonceStore, timers, now, exceptAuth>>

\* worldIdService.verifyProof returns or throws; `provider` records what the
\* provider said
VerifyProofIgnoringOutcome(r, outcome) ==
    /\ areq[r].pc = "verifyProof"
    /\ areq' = [areq EXCEPT ![r] = [@ EXCEPT !.pc = "findOne", !.provider = outcome]]
    /\ UNCHANGED <<users, nonceStore, timers, now, exceptAuth>>

VerifyProof(r, outcome) ==
    /\ areq[r].pc = "verifyProof"
    /\ areq' = [areq EXCEPT ![r] =
           IF outcome = "verified" THEN [@ EXCEPT !.pc = "findOne", !.provider = outcome]
           ELSE AuthAnswered([@ EXCEPT !.provider = outcome], 401, 0)]
    /\ UNCHANGED <<users, nonceStore, timers, now, exceptAuth>>

\* UserModel.findOne({ worldIdNullifierHash }); an existing user gets its token
VerifyFindOne(r) ==
    /\ areq[r].pc = "findOne"
    /\ LET found == FindOneUser(users, "worldIdNullifierHash", areq[r].nullifier)
       IN areq' = [areq EXCEPT ![r] =
              IF found = 0 THEN [@ EXCEPT !.pc = "save"]
              ELSE AuthAnswered(@, 200, found)]
    /\ UNCHANGED <<users, nonceStore, timers, now, exceptAuth>>

\* new UserModel({ worldIdNullifierHash, nickname }).save(), then the token
VerifySave(r) ==
    /\ areq[r].pc = "save"
    /\ Len(users) < MaxUsers
    /\ users' = Append(users, NewUser(areq[r].nullifier, <<"User_", areq[r].nullifier>>, Missing))
    /\ areq' = [areq EXCEPT ![r] = AuthAnswered(@, 200, Len(users) + 1)]
    /\ UNCHANGED <<nonceStore, timers, now, exceptAuth>>

\* POST /api/auth/login, up to the first await. `fresh` records whether the
\* nonce of the body was in the nonce store, not older than NonceTTL, when
\* the request arrived; the handler does not read it.
WalletBegin(r, walletAddress, nickname, nonce) ==
    /\ areq[r].pc = "idle"
    /\ areq' = [areq EXCEPT ![r] =
           [IdleAuthReq EXCEPT
               !.op = "wallet", !.wallet = walletAddress, !.nickname = nickname,
               !.nonce = nonce,
               !.fresh = /\ nonce # Missing
                         /\ nonceStore[nonce] # NoStamp
                         /\ now - nonceStore[nonce] <= NonceTTL,
               !.pc = IF walletAddress # Missing THEN "walletFindOne" ELSE "walletCreate"]]
    /\ UNCHANGED <<users, nonceStore, timers, now, exceptAuth>>

\* UserModel.findOne({ walletAddress })
WalletFindOne(r) ==
    /\ areq[r].pc = "walletFindOne"
    /\ LET found == FindOneUser(users, "walletAddress", areq[r].wallet)
       IN areq' = [areq EXCEPT ![r] =
              [@ EXCEPT !.found = found,
                        !.pc = IF found = 0 THEN "walletCreate" ELSE "walletUpdate"]]
    /\ UNCHANGED <<users, nonceStore, timers, now, exceptAuth>>

\* new UserModel({ nickname, walletAddress }).save(), then the token
WalletCreate(r) ==
    /\ areq[r].pc = "walletCreate"
    /\ Len(users) < MaxUsers
    /\ LET q == areq[r]
           nickname == IF q.nickname # Missing THEN q.nickname ELSE RandomNickname
       IN users' = Append(users, NewUser(Missing, nickname, q.wallet))
    /\ areq' = [areq EXCEPT ![r] = AuthAnswered(@, 200, Len(users) + 1)]
    /\ UNCHANGED <<nonceStore, timers, now, exceptAuth>>

\* the found user gets the nickname of the body, if any, and is saved; then
\* the token
WalletUpdate(r) ==
    /\ areq[r].pc = "walletUpdate"
    /\ LET q == areq[r]
       IN /\ users' = IF q.nickname # Missing
                      THEN [users EXCEPT ![q.found].nickname = q.nickname]
                      ELSE users
          /\ areq' = [areq EXCEPT ![r] = AuthAnswered(@, 200, q.found)]
    /\ UNCHANGED <<nonceStore, timers, now, exceptAuth>>

\* the response is sent and the slot takes the next request
AuthRespond(r) ==
    /\ areq[r].pc = "done"
    /\ areq' = [areq EXCEPT ![r] = IdleAuthReq]
    /\ UNCHANGED <<users, nonceStore, timers, now, exceptAuth>>

NextAuth ==
    \/ \E n \in Nonces : GetNonce(n)
    \/ \E t \in timers : ExpiryTimer(t)
    \/ Tick
    \/ \E r \in AuthReqIds, m \in {"root", Missing}, h \in Nullifiers \cup {Missing},
          p \in {"proof", Missing} : VerifyBegin(r, m, h, p)
    \/ \E r \in AuthReqIds, o \in {"verified", "invalid_proof", "unreachable"} : VerifyProof(r, o)
    \/ \E r \in AuthReqIds : VerifyFindOne(r)
    \/ \E r \in AuthReqIds : VerifySave(r)
    \/ \E r \in AuthReqIds, w \in Wallets \cup {Missing}, k \in {"ann", Missing},
          n \in Nonces \cup {Missing} : WalletBegin(r, w, k, n)
    \/ \E r \in AuthReqIds : WalletFindOne(r)
    \/ \E r \in AuthReqIds : WalletCreate(r)
    \/ \E r \in AuthReqIds : WalletUpdate(r)
    \/ \E r \in AuthReqIds : AuthRespond(r)

(***************************************************************************)
(* ProfileController / ProfileService: /api/profile, and demo login        *)
(***************************************************************************)
\* keys a request body can hold, and how many of them
BodyKeys ==
    {"nickname", "contactInfo", "professionalInfo", "preferences", "statistics",
     "walletAddress", "worldIdNullifierHash", "profilePicture", "_id"}
MaxBodyKeys == 2
\* req.body of PUT /api/profile: the keys sent, each with the value "x"
Bodies == UNION {[K -> {"x"}] : K \in {S \in SUBSET BodyKeys : Cardinality(S) <= MaxBodyKeys}}
NoBody == [k \in {} |-> "x"]

\* const allowedFields = [...]
AnyField == BodyKeys
allowedFields == {"nickname", "contactInfo", "professionalInfo", "preferences"}

\* updateData: the allowed fields that are not undefined in profileData, and
\* updatedAt = new Date()
UpdateData(profileData) ==
    [f \in (allowedFields \cap DOMAIN profileData) \cup {"updatedAt"} |->
        IF f = "updatedAt" THEN "now" ELSE profileData[f]]

\* the document after { $set: updateData }
SetFields(doc, updateData) ==
    [f \in DOMAIN doc |-> IF f \in DOMAIN updateData THEN updateData[f] ELSE doc[f]]

NoProfileAnswer == [op |-> "none", userId |-> 0, body |-> NoBody, code |-> 0]

InitProfile == prlast = NoProfileAnswer

\* POST /api/auth/demo: a User with a random wallet address is saved
DemoLogin(uid) ==
    /\ prlast = NoProfileAnswer
    /\ Len(users) < MaxUsers
    /\ users' = Append(users, NewUser(Missing, "DemoUser_r", "demo_" \o uid))
    /\ prlast' = [NoProfileAnswer EXCEPT !.op = "demoLogin", !.userId = Len(users) + 1,
                                         !.code = 200]
    /\ UNCHANGED exceptProfile

\* GET /api/profile with req.user.userId = userId
GetProfile(userId) ==
    /\ prlast = NoProfileAnswer
    /\ prlast' = [NoProfileAnswer EXCEPT !.op = "getProfile", !.userId = userId,
                     !.code = IF userId \in 1..Len(users) THEN 200 ELSE 404]
    /\ UNCHANGED <<users, exceptProfile>>

\* PUT /api/profile with req.user.userId = userId: updateUserProfile, one
\* findByIdAndUpdate
UpdateProfile(userId, profileData) ==
    /\ prlast = NoProfileAnswer
    /\ IF userId \in 1..Len(users)
       THEN /\ users' = [users EXCEPT ![userId] = SetFields(@, UpdateData(profileData))]
            /\ prlast' = [op |-> "updateProfile", userId |-> userId, body |-> profileData,
                          code |-> 200]
       ELSE /\ users' = users
            /\ prlast' = [op |-> "updateProfile", userId |-> userId, body |-> profileData,
                          code |-> 400]
    /\ UNCHANGED exceptProfile

\* the response is sent
ProfileRespond ==
    /\ prlast # NoProfileAnswer
    /\ prlast' = NoProfileAnswer
    /\ UNCHANGED <<users, exceptProfile>>

NextProfile ==
    \/ \E uid \in {"k7q"} : DemoLogin(uid)
    \/ \E userId \in 1..MaxUsers : GetProfile(userId)
    \/ /\ prlast = NoProfileAnswer
       /\ \E userId \in 1..MaxUsers, profileData \in Bodies : UpdateProfile(userId, profileData)
    \/ ProfileRespond

(***************************************************************************)
(* AuthMiddleware.verifyToken, JwtUtils.verifyToken and the routers        *)
(***************************************************************************)
JWT_SECRET == "BrightNimbusworldwoin2025"

\* the tokens a client can hold: the claims, the key the token was signed
\* with and the tick at which it expires
Tokens ==
    [tU1 |-> [userId |-> "u1", key |-> JWT_SECRET, exp |-> 2],
     tU2 |-> [userId |-> "u2", key |-> JWT_SECRET, exp |-> 1],
     tForged |-> [userId |-> "u1", key |-> "guess", exp |-> 2]]

\* pieces in a header value
MaxHeaderLen == 4

RECURSIVE SeqsUpTo(_, _)
SeqsUpTo(S, n) ==
    IF n = 0 THEN {<<>>}
    ELSE LET shorter == SeqsUpTo(S, n - 1)
         IN shorter \cup {Append(h, a) : h \in {x \in shorter : Len(x) = n - 1}, a \in S}

\* req.headers.authorization: undefined, or a string; a string is a sequence
\* of pieces, the space being the character split(' ') splits at
NoHeader == [present |-> FALSE, value |-> <<>>]
Headers ==
    {NoHeader} \cup
    {[present |-> TRUE, value |-> h] :
        h \in SeqsUpTo({"Bearer", "Basic", " "} \cup DOMAIN Tokens, MaxHeaderLen)}

RECURSIVE SplitFrom(_, _, _, _)
SplitFrom(h, i, part, parts) ==
    IF i > Len(h) THEN Append(parts, part)
    ELSE IF h[i] = " " THEN SplitFrom(h, i + 1, <<>>, Append(parts, part))
    ELSE SplitFrom(h, i + 1, Append(part, h[i]), parts)

\* authHeader.split(' ')
Split(h) == SplitFrom(h, 1, <<>>, <<>>)

\* parts.length !== 2 || parts[0] !== 'Bearer', negated
AnyTwoParts(parts) == Len(parts) = 2
TwoPartsBearer(parts) == Len(parts) = 2 /\ parts[1] = <<"Bearer">>

NoUser == "none"

\* JwtUtils.verifyToken: the decoded claims when jwt.verify(token, JWT_SECRET)
\* does not throw, NoUser for `throw`
verifyToken(token, at) ==
    IF /\ Len(token) = 1
       /\ token[1] \in DOMAIN Tokens
       /\ Tokens[token[1]].key = JWT_SECRET
       /\ at < Tokens[token[1]].exp
    THEN Tokens[token[1]].userId
    ELSE NoUser

\* the registrations of the routers
Routes ==
    {[route |-> "POST /api/chat/create", protected |-> TRUE],
     [route |-> "POST /api/chat/complete", protected |-> TRUE],
     [route |-> "POST /api/chat/message", protected |-> TRUE],
     [route |-> "GET /api/chat/history", protected |-> TRUE],
     [route |-> "GET /api/chat/:id", protected |-> TRUE],
     [route |-> "GET /api/jobs", protected |-> FALSE],
     [route |-> "GET /api/jobs/user", protected |-> TRUE],
     [route |-> "POST /api/jobs/:id/status", protected |-> TRUE],
     [route |-> "POST /api/jobs/:id/link", protected |-> TRUE],
     [route |-> "POST /api/jobs/complete-link", protected |-> TRUE],
     [route |-> "GET /api/profile", protected |-> TRUE],
     [route |-> "PUT /api/profile", protected |-> TRUE],
     [route |-> "GET /api/profile/statistics", protected |-> TRUE],
     [route |-> "GET /api/profile/transactions", protected |-> TRUE],
     [route |-> "GET /api/profile/links", protected |-> TRUE],
     [route |-> "POST /api/payments/create", protected |-> TRUE],
     [route |-> "POST /api/payments/verify", protected |-> FALSE]}

IdleMwReq ==
    [pc |-> "idle", route |-> "none", protected |-> FALSE, header |-> NoHeader, at |-> 0,
     user |-> NoUser, code |-> 0, invoked |-> FALSE, storeOps |-> 0]

InitMw == mreq = IdleMwReq

\* AuthMiddleware.verifyToken: 401, or req.user = decoded and next()
AuthMiddleware(q) ==
    IF ~q.header.present \/ q.header.value = <<>>
    THEN [q EXCEPT !.pc = "done", !.code = 401]
    ELSE LET parts == Split(q.header.value)
         IN IF ~TwoPartsBearer(parts)
            THEN [q EXCEPT !.pc = "done", !.code = 401]
            ELSE LET decoded == verifyToken(parts[2], q.at)
                 IN IF decoded = NoUser
                    THEN [q EXCEPT !.pc = "done", !.code = 401]
                    ELSE [q EXCEPT !.pc = "controller", !.user = decoded]

\* a request arrives at tick `at` and passes the handlers registered before
\* the controller
Request(rt, header, at) ==
    /\ mreq.pc = "idle"
    /\ LET q == [IdleMwReq EXCEPT !.route = rt.route, !.protected = rt.protected,
                                  !.header = header, !.at = at]
       IN mreq' = IF rt.protected THEN AuthMiddleware(q) ELSE [q EXCEPT !.pc = "controller"]
    /\ UNCHANGED exceptMw

\* the controller of the route runs, reads or writes the store, and answers
Controller ==
    /\ mreq.pc = "controller"
    /\ mreq' = [mreq EXCEPT !.pc = "done", !.invoked = TRUE, !.storeOps = @ + 1, !.code = 200]
    /\ UNCHANGED exceptMw

\* the response is sent
MwRespond ==
    /\ mreq.pc = "done"
    /\ mreq' = IdleMwReq
    /\ UNCHANGED exceptMw

NextMw ==
    \/ /\ mreq.pc = "idle"
       /\ \E rt \in Routes, header \in Headers, at \in 0..MaxTime : Request(rt, header, at)
    \/ Controller
    \/ MwRespond

(***************************************************************************)
(* JobService.seedJobs / getJobs and JobController.getJobs: GET /api/jobs  *)
(***************************************************************************)
\* records the seed file can hold
MaxJobs == 30
\* characters in the value of a query parameter
MaxParamLen == 2

DefaultPage == 1
DefaultLimit == 10

\* a job without salary.min
NoSalary == -1

\* record i of a seed file: categories alternate, every seventh record is
\* inactive, later records are posted later; texts, type, remote flag and
\* salary floor vary with i
SeedRecord(i) ==
    LET \* texts are sequences of characters
        Titles == << <<"a", "b">>, <<"A">>, <<"b", "b">>, <<"b", "a", "+">> >>
        Companies == << <<"b">>, <<"B", "a">> >>
        Locations == << <<"a">>, <<"b", "A">>, <<"b">> >>
    IN [category |-> IF i % 2 = 0 THEN "tech" ELSE "design",
        active |-> i % 7 # 0,
        postedAt |-> i,
        title |-> Titles[(i % 4) + 1],
        description |-> Titles[(i % 4) + 1] \o <<"b">>,
        company |-> Companies[(i % 2) + 1],
        location |-> Locations[(i % 3) + 1],
        type |-> IF i % 3 = 0 THEN "PART_TIME" ELSE "FULL_TIME",
        remote |-> i % 4 = 1,
        salaryMin |-> IF i % 5 = 0 THEN NoSalary ELSE (i % 3) * 10,
        kind |-> "valid"]

\* getJobsFromJson: the records of data/jobs.json, n of them
getJobsFromJson(n) == [i \in 1..n |-> SeedRecord(i)]

\* seed runs a process (and its restarts) can make
MaxSeedRuns == 2

\* what a record of the file is to the store: "valid", "invalid" (JobSchema
\* validation refuses it) or "unwritable" (it passes validation and the
\* server refuses the write)
\* the error a failed bulk write carries is named BulkWriteError or
\* MongoBulkWriteError, by driver version

\* JobModel.insertMany of documents that are all written: every inserted
\* document gets an _id of its own; an _id is the batch and the position in
\* the batch
insertMany(records, batch) ==
    [i \in 1..Len(records) |-> [id |-> <<batch, i>>] @@ records[i]]

\* position of the first record of a kind, 0 when there is none
RECURSIVE FirstOfKind(_, _, _)
FirstOfKind(records, kind, i) ==
    IF i > Len(records) THEN 0
    ELSE IF records[i].kind = kind THEN i
    ELSE FirstOfKind(records, kind, i + 1)

\* JobModel.insertMany(jobs), ordered: all documents are validated first and
\* one validation error inserts nothing; the server then writes in order
\* and stops at the first write it refuses
BulkInsert(store, records, batch, errorName) ==
    LET k == FirstOfKind(records, "unwritable", 1)
    IN IF FirstOfKind(records, "invalid", 1) # 0
       THEN [store |-> store, error |-> "ValidationError"]
       ELSE IF k # 0
       THEN [store |-> store \o insertMany(SubSeq(records, 1, k - 1), batch),
             error |-> errorName]
       ELSE [store |-> store \o insertMany(records, batch), error |-> "none"]

\* the loop of seedJobs from record i: new JobModel(jobs[i]).save(), a failed
\* save is logged
RECURSIVE SaveOneByOne(_, _, _, _)
SaveOneByOne(store, records, batch, i) ==
    IF i > Len(records) THEN store
    ELSE SaveOneByOne(
            IF records[i].kind = "valid"
            THEN Append(store, [id |-> <<batch, Len(records) + i>>] @@ records[i])
            ELSE store,
            records, batch, i + 1)

\* JobModel.deleteMany({}) when countDocuments() > 0
deleteExisting(store) == IF Len(store) > 0 THEN <<>> ELSE store

\* seedJobs: the existing jobs are deleted, the records of the file are
\* inserted in bulk after what is left; after a ValidationError or a
\* BulkWriteError they are saved one by one
seedJobs(store, records, batch, errorName) ==
    LET bulk == BulkInsert(deleteExisting(store), records, batch, errorName)
    IN IF bulk.error \in {"ValidationError", "BulkWriteError"}
       THEN SaveOneByOne(bulk.store, records, batch, 1)
       ELSE bulk.store

\* the record of a seedJobs call
SeedLog(records, batch, errorName) ==
    [records |-> records,
     error |-> BulkInsert(<<>>, records, batch, errorName).error]

\* req.query.page / req.query.limit: undefined, or a string
NoParam == [present |-> FALSE, value |-> <<>>]
Params ==
    {NoParam} \cup
    {[present |-> TRUE, value |-> v] : v \in SeqsUpTo({"0", "1", "2", "-"}, MaxParamLen)}

NaN == [nan |-> TRUE, value |-> 0]
Number(k) == [nan |-> FALSE, value |-> k]

DigitValue(c) == CASE c = "0" -> 0 [] c = "1" -> 1 [] c = "2" -> 2 [] OTHER -> -1

RECURSIVE ParseDigits(_, _, _, _)
ParseDigits(str, i, seen, acc) ==
    IF i > Len(str) \/ DigitValue(str[i]) < 0
    THEN (IF seen THEN Number(acc) ELSE NaN)
    ELSE ParseDigits(str, i + 1, TRUE, 10 * acc + DigitValue(str[i]))

\* parseInt of a string: an optional sign, then the leading digits
parseInt(str) ==
    IF Len(str) >= 1 /\ str[1] = "-"
    THEN LET r == ParseDigits(str, 2, FALSE, 0)
         IN IF r.nan THEN NaN ELSE Number(0 - r.value)
    ELSE ParseDigits(str, 1, FALSE, 0)

\* parseInt(req.query.x || dflt) || dflt
PaginationArg(param, dflt) ==
    IF ~param.present \/ param.value = <<>> THEN dflt
    ELSE LET r == parseInt(param.value)
         IN IF r.nan \/ r.value = 0 THEN dflt ELSE r.value

\* const skip = ...
skipWholePages(page, limit) == page * limit
skip(page, limit) == (page - 1) * limit

\* Number(str) of a query string: an optional sign and digits, or NaN
JsNumber(str) ==
    LET digits == IF Len(str) >= 1 /\ str[1] = "-" THEN Tail(str) ELSE str
    IN IF digits = <<>> \/ \E k \in 1..Len(digits) : DigitValue(digits[k]) < 0
       THEN NaN
       ELSE parseInt(str)

\* characters in a search text
MaxSearchLen == 2

\* the characters of a category
CategoryText(category) ==
    CASE category = "tech" -> <<"t", "e", "c", "h">>
      [] category = "design" -> <<"d", "e", "s", "i", "g", "n">>
      [] OTHER -> <<>>

\* new RegExp(source, 'i'): the source is read as a pattern, "." is any
\* character and "+" repeats the atom before it; a "+" with nothing to
\* repeat is a SyntaxError
RECURSIVE Compile(_, _, _)
Compile(source, i, atoms) ==
    IF i > Len(source) THEN [ok |-> TRUE, atoms |-> atoms]
    ELSE IF source[i] = "+"
    THEN IF atoms = <<>> \/ atoms[Len(atoms)].plus
         THEN [ok |-> FALSE, atoms |-> <<>>]
         ELSE Compile(source, i + 1, [atoms EXCEPT ![Len(atoms)].plus = TRUE])
    ELSE Compile(source, i + 1, Append(atoms, [c |-> source[i], plus |-> FALSE]))

RegExp(source) == Compile(source, 1, <<>>)

\* case folding of the i flag
Lower(c) == CASE c = "A" -> "a" [] c = "B" -> "b" [] OTHER -> c

AtomMatches(c, ch) == c = "." \/ Lower(c) = Lower(ch)

\* the atoms from k on match the text at position i
RECURSIVE MatchFrom(_, _, _, _)
MatchFrom(atoms, k, text, i) ==
    IF k > Len(atoms) THEN TRUE
    ELSE IF i > Len(text) THEN FALSE
    ELSE IF ~AtomMatches(atoms[k].c, text[i]) THEN FALSE
    ELSE IF atoms[k].plus
    THEN MatchFrom(atoms, k, text, i + 1) \/ MatchFrom(atoms, k + 1, text, i + 1)
    ELSE MatchFrom(atoms, k + 1, text, i + 1)

\* { $regex: re }: the pattern matches somewhere in the text
RegexTest(re, text) == \E i \in 1..(Len(text) + 1) : MatchFrom(re.atoms, 1, text, i)

\* the filters of req.query next to category: texts are "" when not sent
NoFilters ==
    [search |-> <<>>, type |-> Missing, location |-> <<>>, remote |-> Missing,
     minSalary |-> NoParam]

\* building the query throws: an invalid pattern, or a salary floor that is
\* not a number (the cast of NaN)
QueryThrows(filters) ==
    \/ ~RegExp(filters.search).ok
    \/ ~RegExp(filters.location).ok
    \/ /\ filters.minSalary.present /\ filters.minSalary.value # <<>>
       /\ JsNumber(filters.minSalary.value).nan

\* the query getJobs builds from the filters; active is a schema path
Matches(job, category, filters) ==
    /\ job.active
    /\ category # Missing => job.category = category
    /\ filters.search # <<>> =>
          LET re == RegExp(filters.search)
          IN \/ RegexTest(re, job.title)
             \/ RegexTest(re, job.description)
             \/ RegexTest(re, job.company)
             \/ RegexTest(re, CategoryText(job.category))
    /\ filters.type # Missing => job.type = filters.type
    /\ filters.location # <<>> => RegexTest(RegExp(filters.location), job.location)
    /\ filters.remote # Missing => job.remote = (filters.remote = "true")
    /\ (filters.minSalary.present /\ filters.minSalary.value # <<>>) =>
          /\ job.salaryMin # NoSalary
          /\ job.salaryMin >= JsNumber(filters.minSalary.value).value

\* find(query).sort({ postedAt: -1 }): the store holds its jobs by rising
\* postedAt
FindSorted(store, category, filters) ==
    LET rows == SelectSeq(store, LAMBDA job : Matches(job, category, filters))
    IN [i \in 1..Len(rows) |-> rows[Len(rows) + 1 - i]]

\* .skip(s).limit(l) of a cursor; the driver reads a negative limit as a
\* single batch of -l documents
SkipLimit(rows, s, l) ==
    LET last == s + (IF l < 0 THEN 0 - l ELSE l)
    IN SubSeq(rows, s + 1, IF Len(rows) < last THEN Len(rows) ELSE last)

\* Math.ceil(total / limit), limit # 0
Ceil(total, limit) ==
    IF limit > 0 THEN (total + limit - 1) \div limit ELSE 0 - (total \div (0 - limit))

NoJobsAnswer ==
    [code |-> 0, pageArg |-> NoParam, limitArg |-> NoParam, category |-> Missing,
     filters |-> NoFilters,
     jobs |-> <<>>, total |-> 0, page |-> 0, limit |-> 0, pages |-> 0]

InitJobs ==
    /\ jobs = <<>> /\ jlast = NoJobsAnswer /\ seedRuns = 0
    /\ slast = SeedLog(<<>>, 0, "BulkWriteError")

\* connectDB at process start: seedJobs with the records of the seed file;
\* errorName is the name a bulk write error would carry
ConnectDB(records, errorName) ==
    /\ jlast = NoJobsAnswer
    /\ Len(records) > 0 => seedRuns < MaxSeedRuns
    /\ jobs' = seedJobs(jobs, records, seedRuns + 1, errorName)
    /\ seedRuns' = IF Len(records) > 0 THEN seedRuns + 1 ELSE seedRuns
    /\ slast' = SeedLog(records, seedRuns + 1, errorName)
    /\ jlast' = NoJobsAnswer
    /\ UNCHANGED exceptJobs

\* GET /api/jobs?page=&limit=&category=&... handled with no other request in
\* flight; n is the number of records of the seed file if it gets read
GetJobs(pageArg, limitArg, category, filters, n) ==
    LET seeds == Len(jobs) = 0
        records == getJobsFromJson(n)
        store == IF seeds THEN seedJobs(jobs, records, seedRuns + 1, "BulkWriteError")
                 ELSE jobs
        page == PaginationArg(pageArg, DefaultPage)
        limit == PaginationArg(limitArg, DefaultLimit)
        found == FindSorted(store, category, filters)
        q == [NoJobsAnswer EXCEPT !.pageArg = pageArg, !.limitArg = limitArg,
                                  !.category = category, !.filters = filters]
    IN /\ jlast = NoJobsAnswer
       /\ (seeds /\ n > 0) => seedRuns < MaxSeedRuns
       /\ jobs' = store
       /\ seedRuns' = IF seeds /\ n > 0 THEN seedRuns + 1 ELSE seedRuns
       /\ slast' = IF seeds THEN SeedLog(records, seedRuns + 1, "BulkWriteError")
                   ELSE slast
       /\ jlast' = IF QueryThrows(filters) \/ skip(page, limit) < 0
                   THEN [q EXCEPT !.code = 500]
                   ELSE [q EXCEPT !.code = 200,
                                  !.jobs = SkipLimit(found, skip(page, limit), limit),
                                  !.total = Len(found),
                                  !.page = page,
                                  !.limit = limit,
                                  !.pages = Ceil(Len(found), limit)]
       /\ UNCHANGED exceptJobs

\* the response is sent
JobsRespond ==
    /\ jlast # NoJobsAnswer
    /\ jlast' = NoJobsAnswer
    /\ UNCHANGED <<jobs, seedRuns, slast, exceptJobs>>

\* the process is started on an empty database and serves GET /api/jobs;
\* page numbers are one character shorter than limits
NextJobs ==
    \/ \E n \in 0..MaxJobs :
          Len(jobs) = 0 /\ ConnectDB(getJobsFromJson(n), "BulkWriteError")
    \/ JobsRespond
    \/ /\ jlast = NoJobsAnswer
       /\ \E pageArg \in {p \in Params : p.present => Len(p.value) < MaxParamLen},
             limitArg \in Params, category \in {Missing, "tech"} :
             \E n \in (IF Len(jobs) = 0 THEN 0..MaxJobs ELSE {0}) :
                GetJobs(pageArg, limitArg, category, NoFilters, n)

\* the process is started and restarted on the database it left behind, and
\* serves GET /api/jobs without pagination parameters
NextSeed ==
    \/ \E n \in 0..MaxJobs : ConnectDB(getJobsFromJson(n), "BulkWriteError")
    \/ JobsRespond
    \/ \E category \in {Missing, "tech"}, n \in 0..MaxJobs :
          GetJobs(NoParam, NoParam, category, NoFilters, n)

\* query strings of the filters
FilterArgs ==
    [search : SeqsUpTo({"a", "A", "b", ".", "+"}, MaxSearchLen),
     type : {Missing, "PART_TIME"},
     location : {<<>>, <<"a">>, <<".">>},
     remote : {Missing, "true", "false"},
     minSalary : {NoParam} \cup {[present |-> TRUE, value |-> v] :
                                    v \in {<<"0">>, <<"1", "0">>, <<"-">>}}]

\* GET /api/jobs with filters and the default page, on the database a first
\* request seeds
NextFilter ==
    \/ JobsRespond
    \/ /\ jlast = NoJobsAnswer
       /\ \E category \in {Missing, "tech"}, filters \in FilterArgs :
             \E n \in (IF Len(jobs) = 0 THEN {0, 9, 13} ELSE {0}) :
                GetJobs(NoParam, NoParam, category, filters, n)

\* records a seed file can hold when some of them are refused
MaxFileLen == 3
SeedFiles ==
    {[i \in 1..Len(ks) |-> [SeedRecord(i) EXCEPT !.kind = ks[i]]] :
        ks \in SeqsUpTo({"valid", "invalid", "unwritable"}, MaxFileLen)}

\* the process is started and restarted with seed files that hold refused
\* records
NextSeedRetry ==
    \E records \in SeedFiles, errorName \in {"BulkWriteError", "MongoBulkWriteError"} :
       ConnectDB(records, errorName)

(***************************************************************************)
(* Specifications                                                          *)
(***************************************************************************)
Init == transactions = <<>> /\ InitLink /\ InitPay /\ InitChat /\ InitAuth /\ InitMw
        /\ InitJobs /\ InitProfile

SpecLink == Init /\ [][NextLink]_vars

SpecLinkFailing == Init /\ [][NextLinkFailing]_vars

SpecLinkPay == Init /\ [][NextLinkPay]_vars

SpecPay == Init /\ [][NextPay]_vars

SpecChatPay == Init /\ [][NextChatPay]_vars

SpecChat == Init /\ [][NextChat]_vars

SpecAuth == Init /\ [][NextAuth]_vars

SpecMw == Init /\ [][NextMw]_vars

SpecJobs == Init /\ [][NextJobs]_vars

SpecSeed == Init /\ [][NextSeed]_vars

SpecFilter == Init /\ [][NextFilter]_vars

SpecSeedRetry == Init /\ [][NextSeedRetry]_vars

SpecProfile == Init /\ [][NextProfile]_vars

(***************************************************************************)
(* Claims about payments                                                   *)
(***************************************************************************)
\* C8: every Transaction is created PENDING, and no step changes the status
\* of a Transaction that is COMPLETED or FAILED.
C8_StatusFinal ==
    [][/\ \A t \in (Len(transactions) + 1)..Len(transactions') :
             transactions'[t].status = "PENDING"
       /\ \A t \in 1..Len(transactions) :
             transactions[t].status \in {"COMPLETED", "FAILED"}
             => transactions'[t].status = transactions[t].status]_vars

\* C9: whenever a step stores a Chat, the Transaction its transactionId names
\* exists and is COMPLETED.
C9_ChatOnlyAfterPayment ==
    [][Len(chats') > Len(chats)
       => LET t == chats'[Len(chats')].transactionId
          IN t \in 1..Len(transactions) /\ transactions[t].status = "COMPLETED"]_vars

\* the Transactions a reference sent in a request names
WithReference(txs, ref) == {i \in 1..Len(txs) : txs[i].reference = ref}

C19_CallbackSetsStatus ==
    [][LET q == plast'
           sent == q.transaction_id # Missing /\ q.reference # NoRef
       IN q.op = "callback" =>
          /\ Len(transactions') = Len(transactions)
          /\ ~sent => q.code = 400 /\ transactions' = transactions
          /\ (sent /\ WithReference(transactions, q.reference) = {})
                => q.code = 500 /\ transactions' = transactions
          /\ (sent /\ WithReference(transactions, q.reference) # {})
                => /\ q.code = 200
                   /\ \A i \in 1..Len(transactions) :
                         IF i \in WithReference(transactions, q.reference)
                         THEN transactions'[i] =
                                 [transactions[i] EXCEPT
                                    !.status = IF q.status = "success"
                                               THEN "COMPLETED" ELSE "FAILED",
                                    !.worldIdTransactionId = q.transaction_id]
                         ELSE transactions'[i] = transactions[i]]_vars

\* C19 witness: a callback without a status marked the first of two
\* Transactions FAILED, the second is still PENDING
C19_FirstFailed ==
    /\ plast.op = "callback" /\ plast.code = 200
    /\ plast.reference = 1 /\ plast.status = Missing
    /\ Len(transactions) = 2
    /\ transactions[1].status = "FAILED"
    /\ transactions[1].worldIdTransactionId = plast.transaction_id
    /\ transactions[2].status = "PENDING"

\* C27: no two COMPLETED Transactions carry the same worldIdTransactionId.
C27_OnePaymentOneTransaction ==
    \A i, j \in 1..Len(transactions) :
       (/\ i # j
        /\ transactions[i].status = "COMPLETED"
        /\ transactions[j].status = "COMPLETED")
       => transactions[i].worldIdTransactionId # transactions[j].worldIdTransactionId

\* C28: the Transaction a POST /api/payments/create request stored is owned
\* by the user of the caller's token.
C28_OwnedByCaller ==
    (plast.op = "create" /\ plast.code = 201)
    => transactions[plast.tx].userId = plast.caller

(***************************************************************************)
(* Claims about authentication                                             *)
(***************************************************************************)
\* C2: a wallet login whose nonce was not in the nonce store, or was older
\* than the window, when it arrived writes no User and is answered 401 only;
\* a wallet login answered 200 leaves its nonce out of the nonce store.
C2_NonceAcceptedOnce ==
    [][\A r \in AuthReqIds :
          LET q == areq'[r]
          IN (q # areq[r] /\ q.op = "wallet")
             => /\ ~q.fresh => (users' = users /\ q.code \in {0, 401})
                /\ q.code = 200 => (q.nonce \in Nonces /\ nonceStore'[q.nonce] = NoStamp)]_vars

\* C21: a nonce in the nonce store is never older than the window, and a
\* wallet login that arrived with a fresh nonce and is answered 200 leaves
\* that nonce out of the nonce store.
C21_NonceRemoved ==
    [][/\ \A n \in Nonces :
             nonceStore'[n] # NoStamp => now' - nonceStore'[n] <= NonceTTL
       /\ \A r \in AuthReqIds :
             LET q == areq'[r]
             IN (q # areq[r] /\ q.op = "wallet" /\ q.code = 200 /\ q.fresh)
                => nonceStore'[q.nonce] = NoStamp]_vars

\* C3: no nullifier hash is held by two User rows, and two verifications of
\* one nullifier hash that were answered 200 carry the same user id.
C3_OneUserPerNullifier ==
    /\ \A h \in Nullifiers : Cardinality(UsersWith(users, "worldIdNullifierHash", h)) <= 1
    /\ \A r1 \in AuthReqIds, r2 \in AuthReqIds :
          (/\ areq[r1].pc = "done" /\ areq[r1].op = "verify" /\ areq[r1].code = 200
           /\ areq[r2].pc = "done" /\ areq[r2].op = "verify" /\ areq[r2].code = 200
           /\ areq[r1].nullifier = areq[r2].nullifier)
          => areq[r1].userId = areq[r2].userId

\* C12: no wallet address is held by two User rows, and two wallet logins
\* with one wallet address that were answered 200 carry the same user id.
C12_OneUserPerWallet ==
    /\ \A w \in Wallets : Cardinality(UsersWith(users, "walletAddress", w)) <= 1
    /\ \A r1 \in AuthReqIds, r2 \in AuthReqIds :
          (/\ areq[r1].pc = "done" /\ areq[r1].op = "wallet" /\ areq[r1].code = 200
           /\ areq[r2].pc = "done" /\ areq[r2].op = "wallet" /\ areq[r2].code = 200
           /\ areq[r1].wallet \in Wallets
           /\ areq[r1].wallet = areq[r2].wallet)
          => areq[r1].userId = areq[r2].userId

\* C13: a verification login with merkle_root, nullifier_hash or proof
\* missing is answered 400 with the provider not called; one whose proof the
\* provider rejected or could not be asked about is answered 401; neither
\* gets a token, and only a request the provider accepted looks up or
\* creates a User.
C13_NoUserWithoutVerification ==
    [][\A r \in AuthReqIds :
          LET q == areq'[r]
          IN (q.op = "verify" /\ q # areq[r])
             => /\ (q.merkle_root = Missing \/ q.nullifier = Missing \/ q.proof = Missing)
                   => /\ q.pc = "done" /\ q.code = 400 /\ q.provider = "none"
                      /\ q.userId = 0 /\ users' = users
                /\ q.provider \in {"invalid_proof", "unreachable"}
                   => q.pc = "done" /\ q.code = 401 /\ q.userId = 0 /\ users' = users
                /\ (q.pc \in {"findOne", "save"} \/ q.userId # 0 \/ users' # users)
                   => q.provider = "verified"]_vars

\* the provider rejected a proof and the request was answered 401, after
\* another request had created a User
C13_RejectedProof ==
    \E r \in AuthReqIds :
        /\ areq[r].op = "verify" /\ areq[r].pc = "done"
        /\ areq[r].provider = "invalid_proof" /\ areq[r].code = 401
        /\ Len(users) > 0

(***************************************************************************)
(* Claims about the token middleware                                       *)
(***************************************************************************)
\* the header is `Bearer <token>` with a token signed with the server's key
\* that has not expired when the request arrives
BearerOf(header, at) ==
    {t \in DOMAIN Tokens :
        /\ header.present
        /\ header.value = <<"Bearer", " ", t>>
        /\ Tokens[t].key = JWT_SECRET
        /\ at < Tokens[t].exp}

\* C4: on a route behind verifyToken, a request whose Authorization header
\* is missing, is not `Bearer <token>`, or carries a token that fails the
\* signature or expiry check is answered 401, its controller is not invoked
\* and it makes no store access; a controller that runs has the decoded
\* claims of the token in req.user.
C4_UnauthenticatedRejected ==
    LET q == mreq
        good == BearerOf(q.header, q.at)
    IN (q.pc # "idle" /\ q.protected)
       => /\ good = {} => (q.pc = "done" /\ q.code = 401 /\ ~q.invoked /\ q.storeOps = 0)
          /\ (q.pc = "controller" \/ q.invoked)
             => \E t \in good : q.user = Tokens[t].userId

\* a well-formed header with an expired or forged token was answered 401
C4_BadTokenRefused ==
    /\ mreq.pc = "done" /\ mreq.protected /\ mreq.code = 401
    /\ \E t \in DOMAIN Tokens :
          /\ mreq.header.value = <<"Bearer", " ", t>>
          /\ (Tokens[t].key # JWT_SECRET \/ mreq.at >= Tokens[t].exp)

(***************************************************************************)
(* Claims about the job catalogue                                          *)
(***************************************************************************)
Char(d) == IF d = 0 THEN "0" ELSE IF d = 1 THEN "1" ELSE IF d = 2 THEN "2" ELSE "9"

\* the decimal numeral of k >= 0
RECURSIVE Numeral(_)
Numeral(k) == IF k < 10 THEN <<Char(k)>> ELSE Append(Numeral(k \div 10), Char(k % 10))

\* the values a query parameter asks for: k when it is the numeral of k,
\* the default when it is absent
Asked(param, dflt) ==
    {k \in 1..MaxJobs :
        \/ param.present /\ param.value = Numeral(k)
        \/ ~param.present /\ k = dflt}

\* the jobs of the store that are active and match the category filter
MatchingJobs(category) ==
    {i \in 1..Len(jobs) :
        jobs[i].active /\ (category = Missing \/ jobs[i].category = category)}

\* C7: getJobs with page p >= 1 and limit L >= 1 (1 and 10 when absent)
\* over N matching jobs answers min(L, max(0, N - (p-1)*L)) jobs, total N
\* and pages ceil(N/L).
C7_Pagination ==
    jlast.code # 0
    => \A p \in Asked(jlast.pageArg, 1), L \in Asked(jlast.limitArg, 10) :
          LET N == Cardinality(MatchingJobs(jlast.category))
              rest == IF N - (p - 1) * L > 0 THEN N - (p - 1) * L ELSE 0
          IN /\ jlast.code = 200
             /\ Len(jlast.jobs) = (IF L < rest THEN L ELSE rest)
             /\ jlast.total = N
             /\ jlast.pages * L >= N /\ (jlast.pages - 1) * L < N

\* 25 matching jobs, page=2, limit=10: 10 jobs, 3 pages
C7_SecondPageOf25 ==
    /\ jlast.code = 200
    /\ jlast.pageArg = [present |-> TRUE, value |-> <<"2">>]
    /\ jlast.limitArg = [present |-> TRUE, value |-> <<"1", "0">>]
    /\ Cardinality(MatchingJobs(jlast.category)) = 25
    /\ Len(jlast.jobs) = 10
    /\ jlast.pages = 3

(***************************************************************************)
(* Claims about the profile                                                *)
(***************************************************************************)
\* C14: a profile update changes, of the caller's User row, only updatedAt
\* and those of nickname, contactInfo, professionalInfo and preferences that
\* the body holds, and changes no other User row.
C14_AllowlistedUpdate ==
    [][prlast'.op = "updateProfile"
       => /\ Len(users') = Len(users)
          /\ \A i \in 1..Len(users) :
                IF i = prlast'.userId
                THEN \A f \in DOMAIN users[i] :
                        users'[i][f] # users[i][f]
                        => \/ f = "updatedAt"
                           \/ /\ f \in {"nickname", "contactInfo", "professionalInfo",
                                        "preferences"}
                              /\ f \in DOMAIN prlast'.body
                              /\ users'[i][f] = prlast'.body[f]
                ELSE users'[i] = users[i]]_vars

\* a body holding statistics and nickname was applied to the second user:
\* the nickname is set, the statistics are as they were
C14_StatisticsKept ==
    /\ prlast.op = "updateProfile" /\ prlast.code = 200 /\ prlast.userId = 2
    /\ DOMAIN prlast.body = {"statistics", "nickname"}
    /\ users[2].nickname = "x"
    /\ users[2].statistics = "default"
    /\ users[1].updatedAt = "created"

(***************************************************************************)
(* Claims about the chat                                                   *)
(***************************************************************************)
\* positions i < k of msgs holding the messages u and a
HeldInOrder(msgs, u, a) ==
    \E i \in 1..Len(msgs), k \in 1..Len(msgs) : i < k /\ msgs[i] = u /\ msgs[k] = a

\* C6: a sendMessage whose provider call failed has not thrown: the chat it
\* returns ends with the user's message followed by the AI apology, and the
\* stored chat holds both, in that order.
C6_ApologyOnProviderFailure ==
    \A r \in ChatReqIds :
        LET q == creq[r]
            n == Len(q.doc)
        IN (q.pc = "done" /\ q.ai = "fail")
           => /\ ~q.threw
              /\ n >= 2
              /\ q.doc[n - 1] = Message("USER", q.message)
              /\ q.doc[n] = Message("AI", Apology)
              /\ HeldInOrder(chats[q.chatId].messages, q.doc[n - 1], q.doc[n])

\* the owner's message was answered with the apology
C6_ApologyStored ==
    \E r \in ChatReqIds :
        LET q == creq[r]
        IN /\ q.pc = "done" /\ q.ai = "fail" /\ q.resp = 200
           /\ chats[q.chatId].messages[Len(chats[q.chatId].messages)] = Message("AI", Apology)

\* C25: no step of a sendMessage request whose caller does not own the chat
\* changes a chat or calls the AI provider, and such a request is answered
\* 403.
C25_NonOwnerLeavesChat ==
    [][\A r \in ChatReqIds :
          LET q == creq'[r]
          IN (/\ q # creq[r]
              /\ q.chatId \in 1..Len(chats)
              /\ chats[q.chatId].userId # q.caller)
             => /\ chats' = chats
                /\ q.ai = "none"
                /\ q.pc = "done" => q.resp = 403]_vars

\* C30: in every stored chat that no sendMessage request is working on, each
\* USER message is immediately followed by an AI message (a call appends
\* its two messages or none).
C30_AllOrNothing ==
    \A c \in 1..Len(chats) :
       Pending(c) = 0
       => \A i \in 1..Len(chats[c].messages) :
             chats[c].messages[i].role = "USER"
             => /\ i < Len(chats[c].messages)
                /\ chats[c].messages[i + 1].role = "AI"

(***************************************************************************)
(* Claims about the job-interaction and paid-link workflow                 *)
(***************************************************************************)
TxCreatedFor(q) ==
    /\ q.txId \in 1..Len(transactions)
    /\ transactions[q.txId].type = "JOB_LINK"
    /\ transactions[q.txId].userId = q.userId
    /\ transactions[q.txId].jobId = q.jobId

\* C1: a complete-link request that was answered success, for the transaction
\* that job-link create recorded for this user and job, leaves one UserJob row
\* of the pair with status APPLIED, a generated link and the supplied
\* transaction id, and linksGenerated one above its value before the call.
C1_CompleteAfterCreate ==
    \A r \in JobReqIds :
        LET q == jreq[r]
            rows == userJobs[<<q.userId, q.jobId>>]
        IN (q.op = "complete" /\ q.pc = "done" /\ q.resp = 200 /\ TxCreatedFor(q))
           => /\ Len(rows) = 1
              /\ rows[1].status = "APPLIED"
              /\ rows[1].generatedLink # NoLink
              /\ rows[1].transactionId = q.txId
              /\ linksGenerated[q.userId] = q.before + 1

\* C5: the save of updateJobStatus never adds a row to a pair whose row it
\* loaded, and when the pair's row is as the request loaded it (or the pair
\* had and has no row) a successful request leaves exactly one row of the
\* pair, carrying the requested status.
C5_StatusUpdatedInPlace ==
    [][\A r \in JobReqIds :
          LET q == jreq[r]
              p == <<q.userId, q.jobId>>
          IN (q.op = "status" /\ q.pc = "save" /\ jreq'[r].pc = "done")
             => /\ q.found > 0 => Len(userJobs'[p]) = Len(userJobs[p])
                /\ (jreq'[r].resp = 200 /\ (q.found > 0 => userJobs[p][q.found] = q.doc))
                   => /\ Len(userJobs'[p]) = 1
                      /\ userJobs'[p][1].status = q.status]_vars

\* a request marked INTERESTED a pair whose row it had found DISCARDED
C5_DiscardedThenInterested ==
    \E r \in JobReqIds :
        LET q == jreq[r]
            rows == userJobs[<<q.userId, q.jobId>>]
        IN /\ q.op = "status" /\ q.pc = "done" /\ q.resp = 200
           /\ q.status = "INTERESTED" /\ q.doc.status = "DISCARDED"
           /\ Len(rows) = 1 /\ rows[1].status = "INTERESTED"

\* C10: no step leaves a pair with more than one UserJob row, and a save that
\* would insert a row for a pair that already has one is answered with an
\* error and stores nothing.
C10_OneRowPerPair ==
    [][/\ \A p \in Pairs : Len(userJobs'[p]) <= 1
       /\ \A r \in JobReqIds :
             LET q == jreq[r]
             IN (/\ q.pc = "save" /\ q.found = 0 /\ jreq'[r] # q
                 /\ Len(userJobs[<<q.userId, q.jobId>>]) > 0)
                => jreq'[r].resp = 400 /\ userJobs' = userJobs]_vars

\* a request that found no row lost the race and was refused
C10_DuplicateRefused ==
    \E r \in JobReqIds :
        /\ jreq[r].pc = "done" /\ jreq[r].dup /\ jreq[r].resp = 400
        /\ Len(userJobs[<<jreq[r].userId, jreq[r].jobId>>]) = 1

\* C11: every UserJob row with status APPLIED has a generated link and a
\* transactionId that is the _id of a stored Transaction.
C11_AppliedCarriesLinkAndTx ==
    \A p \in Pairs : \A i \in 1..Len(userJobs[p]) :
        userJobs[p][i].status = "APPLIED"
        => /\ userJobs[p][i].generatedLink # NoLink
           /\ userJobs[p][i].transactionId \in 1..Len(transactions)

\* C15: a status update (with a valid status) or a complete-link request
\* that names a job no Job document has is answered 404.
C15_MissingJobIs404 ==
    \A r \in JobReqIds :
        LET q == jreq[r]
        IN (/\ q.pc = "done" /\ q.jobId \notin JobIds
            /\ \/ q.op = "complete"
               \/ q.op = "status" /\ q.status \in {"INTERESTED", "DISCARDED"})
           => q.resp = 404

\* C16: a complete-link request that saved its row and then met a failing
\* update of the linksGenerated counter is answered success.
C16_StatisticsFailureSwallowed ==
    \A r \in JobReqIds :
        (jreq[r].pc = "done" /\ jreq[r].op = "complete" /\ jreq[r].failed # "none")
        => jreq[r].resp = 200

(***************************************************************************)
(* Claims about job seeding                                                *)
(***************************************************************************)
\* C17: seeding loads the static data only into an empty store: while the
\* Job collection holds rows, no step (a seed run at startup, a GET
\* /api/jobs) changes the rows or their ids.
C17_SeedOnlyIntoEmpty ==
    [][Len(jobs) > 0 => jobs' = jobs]_vars

\* C20: the complete step never consults the Transaction: a complete-link
\* request for an existing job is answered 200 and leaves the caller's row
\* APPLIED with a link and the supplied transactionId, whatever Transaction
\* (PENDING, FAILED, another user's, none) that id names.
C20_CompleteIgnoresTransaction ==
    \A r \in JobReqIds :
       (jreq[r].pc = "done" /\ jreq[r].op = "complete" /\ jreq[r].jobId \in JobIds)
       => /\ jreq[r].resp = 200
          /\ LET rows == userJobs[<<jreq[r].userId, jreq[r].jobId>>]
             IN /\ Len(rows) = 1
                /\ rows[1].status = "APPLIED"
                /\ rows[1].generatedLink # NoLink
                /\ rows[1].transactionId = jreq[r].txId

\* C20 witness: a link was completed on a FAILED Transaction of another user
C20_CompletedOnForeignFailed ==
    /\ jreq["a"].pc = "done" /\ jreq["a"].op = "complete" /\ jreq["a"].resp = 200
    /\ jreq["a"].userId = "u1"
    /\ jreq["a"].txId \in 1..Len(transactions)
    /\ transactions[jreq["a"].txId].userId = "u2"
    /\ transactions[jreq["a"].txId].status = "FAILED"
    /\ userJobs[<<"u1", "j1">>][1].status = "APPLIED"
    /\ userJobs[<<"u1", "j1">>][1].transactionId = jreq["a"].txId

\* copies of record i of the file that the store holds
Stored(store, records, i) ==
    {k \in 1..Len(store) : store[k].postedAt = records[i].postedAt}

\* C22: after a seedJobs call whose bulk insert failed, every valid record
\* of the file is stored exactly once and no refused record is stored.
C22_RetryStoresEachValidOnce ==
    [][(seedRuns' # seedRuns /\ slast'.error # "none")
       => \A i \in 1..Len(slast'.records) :
             Cardinality(Stored(jobs', slast'.records, i))
                = IF slast'.records[i].kind = "valid" THEN 1 ELSE 0]_vars

\* C23: a status request whose status is not INTERESTED or DISCARDED, or
\* whose job does not exist, is answered with an error at once and the step
\* leaves the UserJob collection as it was; a status request that writes a
\* row carries one of the two statuses and names an existing job.
C23_OnlyInterestedOrDiscarded ==
    [][\A r \in JobReqIds :
          LET q == jreq'[r]
          IN (q # jreq[r] /\ q.op = "status")
             => /\ (q.status \notin {"INTERESTED", "DISCARDED"} \/ q.jobId \notin JobIds)
                     => /\ q.pc = "done"
                        /\ q.resp >= 400
                        /\ userJobs' = userJobs
                /\ userJobs' # userJobs
                     => /\ q.status \in {"INTERESTED", "DISCARDED"}
                        /\ q.jobId \in JobIds]_vars

\* C23 witness: APPLIED was asked for an existing job whose row is
\* INTERESTED; the request is refused and the row is as before
C23_AppliedRefused ==
    /\ jreq["a"].op = "status" /\ jreq["a"].pc = "done"
    /\ jreq["a"].status = "APPLIED" /\ jreq["a"].jobId = "j1"
    /\ jreq["a"].resp = 400
    /\ Len(userJobs[<<"u1", "j1">>]) = 1
    /\ userJobs[<<"u1", "j1">>][1].status = "INTERESTED"

\* the text holds the part, letter case aside
Contains(text, part) ==
    \E i \in 0..(Len(text) - Len(part)) :
       \A k \in 1..Len(part) : Lower(text[i + k]) = Lower(part[k])

\* the job is active and meets every filter that was supplied, the texts
\* taken as texts
Satisfies(job, category, filters) ==
    /\ job.active
    /\ category # Missing => job.category = category
    /\ filters.type # Missing => job.type = filters.type
    /\ filters.remote # Missing => job.remote = (filters.remote = "true")
    /\ (filters.minSalary.present /\ filters.minSalary.value # <<>>) =>
          /\ ~JsNumber(filters.minSalary.value).nan
          /\ job.salaryMin # NoSalary
          /\ job.salaryMin >= JsNumber(filters.minSalary.value).value
    /\ filters.location # <<>> => Contains(job.location, filters.location)
    /\ filters.search # <<>> =>
          \/ Contains(job.title, filters.search)
          \/ Contains(job.description, filters.search)
          \/ Contains(job.company, filters.search)
          \/ Contains(CategoryText(job.category), filters.search)

\* C24: every job of a 200 answer of GET /api/jobs is active and meets every
\* supplied filter, and the total counts every active job that does.
C24_FiltersApplied ==
    jlast.code = 200
    => /\ \A k \in 1..Len(jlast.jobs) :
             Satisfies(jlast.jobs[k], jlast.category, jlast.filters)
       /\ jlast.total =
             Cardinality({i \in 1..Len(jobs) :
                             Satisfies(jobs[i], jlast.category, jlast.filters)})

\* C26: no Transaction is referenced by more than one UserJob row or Chat,
\* and a JOB_LINK Transaction is referenced only by the UserJob row of the
\* job its metadata names.
C26_OneActionPerTransaction ==
    /\ \A t \in 1..Len(transactions) :
          Cardinality({p \in Pairs :
                          \E i \in 1..Len(userJobs[p]) : userJobs[p][i].transactionId = t})
             + Cardinality({c \in 1..Len(chats) : chats[c].transactionId = t}) <= 1
    /\ \A p \in Pairs : \A i \in 1..Len(userJobs[p]) :
          LET t == userJobs[p][i].transactionId
          IN (t \in 1..Len(transactions) /\ transactions[t].type = "JOB_LINK")
             => transactions[t].jobId = p[2]

\* C29: with no request of the job routes in flight, linksGenerated of every
\* user is the number of the user's UserJob rows that have a generatedLink.
C29_LinksGeneratedIsCount ==
    (\A r \in JobReqIds : jreq[r].pc \in {"idle", "done"})
    => \A u \in UserIds : linksGenerated[u] = LinksCount(userJobs, u)

====
